---- MODULE Spec2Model ----
(***************************************************************************)
(* SakuraLingo backend: lessons, exercise stores and group memberships.    *)
(*                                                                         *)
(* The tables of models.py are the state: Lesson, LessonsExercises,        *)
(* ExerciseFreetext, ExerciseMultiChoice and its options, ExerciseMatch    *)
(* and its options, Group, GroupsStudents.  Every action is one HTTP       *)
(* handler of views.py run to completion, including the model methods      *)
(* (LessonsExercises.save / delete, update_lesson_stats) and the           *)
(* serializer code it calls; the join request, and in SpecRace the          *)
(* add-exercise request and the lesson creation, are split into their      *)
(* statements, so that calls in progress at the same time interleave.      *)
(* Primary keys are auto-increment: a table is a sequence indexed by id,   *)
(* and a deleted row leaves the marker Deleted behind so that its id is    *)
(* never handed out again.                                                 *)
(*                                                                         *)
(* Spec is the lesson model over all three exercise stores, SpecUpdate     *)
(* adds the lesson update, SpecPairs and SpecQuestions are the pair-match  *)
(* and multiple-choice stores under every shape of request body,           *)
(* SpecGroups is the membership model, SpecAccess and SpecStores are the   *)
(* lesson and store requests sent by every caller, and SpecRace is the     *)
(* lesson model with requests in progress at the same time.                *)
(***************************************************************************)
EXTENDS Integers, Sequences, FiniteSets, TLC

\* ---- bounds of the model -------------------------------------------------
MaxLessons == 1       \* lessons ever created
MaxExId == 1          \* records ever created per exercise table, and the
                      \* range 1..MaxExId of exercise ids a request may name
MaxList == 2          \* entries in one request's list of exercises or options
MaxEntries == 1       \* entries in the list of a request served statement by
                      \* statement
MaxPairs == 2         \* pairs in one direct pair-match creation, pair ids in
                      \* one creation from pairs
MaxMatch == 3         \* ExerciseMatch records ever created in the pair model
MaxQuestions == 2     \* ExerciseMultiChoice records ever created in the
                      \* question model
MaxGroups == 1        \* groups ever created
MaxCalls == 2         \* requests of one kind in progress at one time
MaxMemberships == 2   \* GroupsStudents rows ever created

\* ---- input domains -------------------------------------------------------
JlptLevels == {2, 3, 5}
ExerciseTypes == {"freetext", "multi-choice", "pair-match"}
ExIds == 1 .. MaxExId
Users == {"teacher", "student"}

\* The accounts whose User.is_teacher is set, and every account that sends
\* requests: two teachers and a student
Teachers == {"teacher", "other_teacher"}
Callers == Teachers \cup Users

\* The account that sends the requests on the pair-match and multi-choice
\* stores in the specifications that do not tell its callers apart
author == "teacher"

\* The values a lesson request may carry for the three derived fields: every
\* subset of the fields, one value each.
Supplied == [lesson_type |-> "custom", jlpt_level |-> "4", exercise_count |-> 9]
LessonData == {[f \in F |-> Supplied[f]] : F \in SUBSET DOMAIN Supplied}
Deleted == [deleted |-> TRUE]

\* request.user.is_teacher read as set for every account
is_teacher_everyone(u) == TRUE

\* request.user.is_teacher
is_teacher(u) == u \in Teachers

\* The ownership test passed by every teacher
owner_is_any_teacher(row, u) == is_teacher(u)

\* lesson.teacher != request.user; get_object_or_404(Group, ..., teacher=request.user)
owner(row, u) == row.teacher = u

\* A tag that names none of the three kinds, and the entries a body can hold
\* when its tags are not kept to the three
unknown_type == "quiz"
SubmittedRefs == [exercise_id : ExIds, exercise_type : ExerciseTypes \cup {unknown_type}]

\* One entry of a request's exercise list: {id / exercise_id, type / exercise_type}
ExerciseRefs == [exercise_id : ExIds, exercise_type : ExerciseTypes]

RECURSIVE SeqsUpTo(_, _)
SeqsUpTo(S, n) ==
    IF n = 0 THEN {<<>>}
    ELSE LET shorter == SeqsUpTo(S, n - 1)
         IN  shorter \cup {Append(s, x) : s \in {t \in shorter : Len(t) = n - 1}, x \in S}

ExerciseLists == SeqsUpTo(ExerciseRefs, MaxList)
SubmittedLists == SeqsUpTo(SubmittedRefs, MaxList)

\* ---- pairs as requests carry them ----------------------------------------
\* str.lower(), which kanji__iexact / answer__iexact compare under
lower(t) == IF t = "FIRE" THEN "fire" ELSE IF t = "HI" THEN "hi" ELSE t

iexact(a, b) == lower(a) = lower(b)

\* One entry of request.data['pairs']; "" is a missing or empty value ("hi"
\* is the reading of the kanji for fire)
Pair(k, a) == [kanji |-> k, answer |-> a]

\* An entry that is a JSON string or number, not an object
NotADict == [json |-> "string"]

PairData == {Pair("hi", "fire"), Pair("fire", "hi"), Pair("hi", "FIRE"),
             Pair("hi", ""), NotADict}
PairLists == SeqsUpTo(PairData, MaxPairs)

\* One entry of request.data['options'].  is_correct is the JSON value the
\* entry carries: "true" / "false" for the JSON booleans, "str:false" and
\* "str:maybe" for the JSON strings "false" and "maybe".
Option(a, c) == [answer |-> a, is_correct |-> c]

\* bool(opt.get('is_correct')): a non-empty string is true
truthy(c) == c \in {"true", "str:false", "str:maybe"}

\* serializers.BooleanField: the value is in TRUE_VALUES, in FALSE_VALUES, or
\* invalid
is_valid_boolean(c) == c \in {"true", "false", "str:false"}
to_boolean(c) == c = "true"

OptionData == {Option("A", "true"), Option("B", "false"), Option("B", "str:false"),
               Option("", "true"), Option("B", "str:maybe")}
OptionLists == SeqsUpTo(OptionData, MaxList)

\* The valid options and pairs that the requests of the lesson model carry
SampleOptions == <<Option("A", "true"), Option("B", "false")>>
SamplePairs == <<Pair("hi", "fire"), Pair("mizu", "water"), Pair("ki", "tree"),
                 Pair("tsuchi", "earth")>>

VARIABLES
    lesson,               \* Lesson table: id -> record or Deleted
    lessons_exercises,    \* LessonsExercises rows of each lesson, in insertion order
    exercise_freetext,    \* ExerciseFreetext table: id -> [jlpt_level] or Deleted
    exercise_multichoice, \* ExerciseMultiChoice table: id -> [jlpt_level] or Deleted
    exercise_match,       \* ExerciseMatch table: id -> [jlpt_level, pair_count] or Deleted
    exercise_match_options,       \* ExerciseMatchOptions table: id ->
                                  \* [exercise_match, kanji, answer] or Deleted
    exercise_multichoice_options, \* ExerciseMultiChoiceOptions table: id ->
                                  \* [exercise_mc, answer, is_correct] or Deleted
    group,                \* Group table: id -> [teacher]
    groups_students,      \* GroupsStudents table: id ->
                          \* [student, group, verification_status] or Deleted
    join_request,         \* the RequestToJoinGroup.post calls in progress
    add_request,          \* the LessonExercisesView.post and lesson creation calls
                          \* in progress, where they are served statement by statement
    last                  \* the request that was served last, and its outcome

lesson_tables == <<lesson, lessons_exercises>>
option_tables == <<exercise_match_options, exercise_multichoice_options>>
group_tables == <<group, groups_students, join_request>>

vars == <<lesson, lessons_exercises, exercise_freetext, exercise_multichoice,
          exercise_match, exercise_match_options, exercise_multichoice_options,
          group, groups_students, join_request, add_request, last>>

\* ---- str() and f-strings -------------------------------------------------
Digit(d) == <<"0", "1", "2", "3", "4", "5", "6", "7", "8", "9">>[d + 1]

RECURSIVE str(_)
str(n) == IF n < 10 THEN Digit(n) ELSE str(n \div 10) \o Digit(n % 10)

\* min() / max() of a non-empty set of integers
min(S) == CHOOSE x \in S : \A y \in S : x <= y
max(S) == CHOOSE x \in S : \A y \in S : y <= x

\* ---- Model.objects.get(id=...) -------------------------------------------
Exists(table, id) == id \in 1 .. Len(table) /\ table[id] # Deleted

Range(s) == {s[i] : i \in 1 .. Len(s)}

\* ---- Lesson.update_lesson_stats ------------------------------------------
\* The try-block of the loop for one row le: the JLPT levels it adds to
\* jlpt_levels; nothing when .get() raises, or when no branch matches the tag.
row_jlpt_levels(le, ft, mc, pm) ==
    IF le.exercise_type = "freetext" THEN
        IF Exists(ft, le.exercise_id) THEN {ft[le.exercise_id].jlpt_level} ELSE {}
    ELSE IF le.exercise_type = "multi-choice" THEN
        IF Exists(mc, le.exercise_id) THEN {mc[le.exercise_id].jlpt_level} ELSE {}
    ELSE IF le.exercise_type = "pair-match" THEN
        IF Exists(pm, le.exercise_id) THEN {pm[le.exercise_id].jlpt_level} ELSE {}
    ELSE {}

\* The loop over the lesson's rows: exercise_types gets the row's tag before
\* the try-block, jlpt_levels what the try-block adds.
RECURSIVE collect_stats(_, _, _, _)
collect_stats(rows, ft, mc, pm) ==
    IF rows = <<>> THEN [exercise_types |-> {}, jlpt_levels |-> {}]
    ELSE LET le == Head(rows)
             rest == collect_stats(Tail(rows), ft, mc, pm)
         IN  [exercise_types |-> {le.exercise_type} \cup rest.exercise_types,
              jlpt_levels |-> row_jlpt_levels(le, ft, mc, pm) \cup rest.jlpt_levels]

\* "Set lesson type"
lesson_type_of(exercise_types) ==
    IF Cardinality(exercise_types) = 1
    THEN CHOOSE t \in exercise_types : TRUE
    ELSE "mixed"

\* jlpt_level_of without the test min_level == max_level
jlpt_level_of_always_range(jlpt_levels) ==
    IF jlpt_levels # {}
    THEN str(min(jlpt_levels)) \o "-" \o str(max(jlpt_levels))
    ELSE "unknown"

\* "Set JLPT level range"
jlpt_level_of(jlpt_levels) ==
    IF jlpt_levels # {} THEN
        LET min_level == min(jlpt_levels)
            max_level == max(jlpt_levels)
        IN  IF min_level = max_level THEN str(min_level)
            ELSE str(min_level) \o "-" \o str(max_level)
    ELSE "unknown"

\* self with the three derived fields as update_lesson_stats saves them, rows
\* being LessonsExercises.objects.filter(lesson=self)
update_lesson_stats(self, rows, ft, mc, pm) ==
    IF rows = <<>> THEN
        [self EXCEPT !.lesson_type = "empty", !.jlpt_level = "unknown",
                     !.exercise_count = 0]
    ELSE LET stats == collect_stats(rows, ft, mc, pm)
         IN  [self EXCEPT !.exercise_count = Len(rows),
                          !.lesson_type = lesson_type_of(stats.exercise_types),
                          !.jlpt_level = jlpt_level_of(stats.jlpt_levels)]

\* ---- LessonsExercises.objects.create, entry by entry ---------------------
\* An INSERT that the table accepts whatever rows the lesson holds
violates_unique_never(rows, entry) == FALSE

\* unique_together = ['lesson', 'exercise_id', 'exercise_type'], which the
\* database tests within the INSERT: entry is among the rows of the lesson
violates_unique(rows, entry) == \E i \in 1 .. Len(rows) : rows[i] = entry

\* The rows of the lesson once the loop over a request's entries has ended:
\* either every entry was inserted, or the insert of the first entry that
\* breaks unique_together raised IntegrityError and ended the request.
RECURSIVE create_rows(_, _)
create_rows(rows, entries) ==
    IF entries = <<>> THEN rows
    ELSE IF violates_unique(rows, Head(entries)) THEN rows
    ELSE create_rows(Append(rows, Head(entries)), Tail(entries))

\* What `last` records of a served request: the handler, the lesson or the
\* exercise it addressed, the number of rows it inserted (lesson_create,
\* lesson_add) or the position of the row it deleted (lesson_remove), the
\* derived lesson fields the request carried a value for, and whether it
\* returned a success status.  count_before_add is the exercise_count the
\* lesson held when an add-exercise request arrived; the removal of the very
\* row that the request before it added alone carries that value on; it is
\* -1 everywhere else.  data is the list in the body of a request that creates
\* an exercise: its pairs, options or pair_ids; of a request on a membership,
\* the student and the group of the row.  user is request.user where a
\* handler's outcome is told apart by caller.  status is the class of the
\* response where a property tells the classes apart: "forbidden" (403),
\* "not_found" (404), "server_error" (an exception no handler catches);
\* elsewhere it repeats ok as "success" or "refused".
Request(op, l, ty, id, n, carried, ok) ==
    [op |-> op, lesson |-> l, exercise_type |-> ty, exercise_id |-> id,
     rows |-> n, carried |-> carried, ok |-> ok, count_before_add |-> -1,
     data |-> <<>>, user |-> "",
     status |-> IF ok THEN "success" ELSE "refused"]

\* LessonsExercises.objects.filter(lesson=lesson).count() less the newest row
row_count_without_newest(rows) == IF rows = <<>> THEN 0 ELSE Len(rows) - 1

\* LessonsExercises.objects.filter(lesson=lesson).count()
row_count(rows) == Len(rows)

Init ==
    /\ lesson = <<>>
    /\ lessons_exercises = <<>>
    /\ exercise_freetext = <<>>
    /\ exercise_multichoice = <<>>
    /\ exercise_match = <<>>
    /\ exercise_match_options = <<>>
    /\ exercise_multichoice_options = <<>>
    /\ group = <<>>
    /\ groups_students = <<>>
    /\ join_request = <<>>
    /\ add_request = <<>>
    /\ last = Request("none", 0, "", 0, 0, {}, TRUE)

\* ---- exercise stores -----------------------------------------------------
\* ExerciseFreetextListCreateView.post
ExerciseFreetextCreate(u, level) ==
    /\ is_teacher(u)
    /\ Len(exercise_freetext) < MaxExId
    /\ exercise_freetext' = Append(exercise_freetext, [jlpt_level |-> level])
    /\ last' = [Request("exercise_create", 0, "freetext", Len(exercise_freetext) + 1,
                           0, {}, TRUE)
                   EXCEPT !.user = u]
    /\ UNCHANGED <<lesson_tables, exercise_multichoice, exercise_match, option_tables,
                   group_tables, add_request>>

\* ExerciseFreetextDetailView.put
ExerciseFreetextPut(u, pk, level) ==
    /\ is_teacher(u)
    /\ Exists(exercise_freetext, pk)
    /\ exercise_freetext' = [exercise_freetext EXCEPT ![pk] = [jlpt_level |-> level]]
    /\ last' = [Request("exercise_update", 0, "freetext", pk, 0, {}, TRUE)
                   EXCEPT !.user = u]
    /\ UNCHANGED <<lesson_tables, exercise_multichoice, exercise_match, option_tables,
                   group_tables, add_request>>

\* ExerciseFreetextDetailView.delete
ExerciseFreetextDelete(u, pk) ==
    /\ is_teacher(u)
    /\ Exists(exercise_freetext, pk)
    /\ exercise_freetext' = [exercise_freetext EXCEPT ![pk] = Deleted]
    /\ last' = [Request("exercise_delete", 0, "freetext", pk, 0, {}, TRUE)
                   EXCEPT !.user = u]
    /\ UNCHANGED <<lesson_tables, exercise_multichoice, exercise_match, option_tables,
                   group_tables, add_request>>

\* on_delete=models.CASCADE of a foreign key: the rows of the table that
\* refer to record id through field fk go with it
cascade(table, fk, id) ==
    [i \in 1 .. Len(table) |->
        IF table[i] # Deleted /\ table[i][fk] = id THEN Deleted ELSE table[i]]

\* The live rows of the table that refer to record id through field fk
referring(table, fk, id) ==
    {i \in 1 .. Len(table) : table[i] # Deleted /\ table[i][fk] = id}

\* The loop "Save each option" of ExerciseMultiChoiceView.post: the options
\* table once the loop has ended, and whether it ended at an option whose
\* serializer is not valid (blank answer, or is_correct not a boolean)
RECURSIVE save_options(_, _, _)
save_options(options, question_id, options_data) ==
    IF options_data = <<>> THEN [options |-> options, is_valid |-> TRUE]
    ELSE LET option_data == Head(options_data)
         IN  IF option_data.answer = "" \/ ~is_valid_boolean(option_data.is_correct)
             THEN [options |-> options, is_valid |-> FALSE]
             ELSE save_options(
                      Append(options, [exercise_mc |-> question_id,
                                       answer |-> option_data.answer,
                                       is_correct |-> to_boolean(option_data.is_correct)]),
                      question_id, Tail(options_data))

\* ExerciseMultiChoiceView.post (question and jlpt_level valid)
ExerciseMultiChoiceCreate(u, level, options_data) ==
    LET question_id == Len(exercise_multichoice) + 1
        saved == save_options(exercise_multichoice_options, question_id, options_data)
    IN  /\ IF options_data = <<>>
              \/ ~\E i \in 1 .. Len(options_data) : truthy(options_data[i].is_correct)
           THEN \* 400 before anything is saved
                /\ last' = [Request("exercise_create", 0, "multi-choice", 0, 0, {}, FALSE)
                               EXCEPT !.data = options_data, !.user = u]
                /\ UNCHANGED <<exercise_multichoice, exercise_multichoice_options, add_request>>
           ELSE IF saved.is_valid
           THEN /\ exercise_multichoice' =
                       Append(exercise_multichoice, [jlpt_level |-> level])
                /\ exercise_multichoice_options' = saved.options
                /\ last' = [Request("exercise_create", 0, "multi-choice", question_id,
                                    0, {}, TRUE)
                               EXCEPT !.data = options_data, !.user = u]
           ELSE \* question.delete(), which takes the saved options with it
                /\ exercise_multichoice' = Append(exercise_multichoice, Deleted)
                /\ exercise_multichoice_options' =
                       cascade(saved.options, "exercise_mc", question_id)
                /\ last' = [Request("exercise_create", 0, "multi-choice", question_id,
                                    0, {}, FALSE)
                               EXCEPT !.data = options_data, !.user = u]
        /\ UNCHANGED <<lesson_tables, exercise_freetext, exercise_match,
                       exercise_match_options, group_tables, add_request>>

\* ExerciseMultiChoiceView.delete
ExerciseMultiChoiceDelete(u, question_id) ==
    /\ Exists(exercise_multichoice, question_id)
    /\ exercise_multichoice' = [exercise_multichoice EXCEPT ![question_id] = Deleted]
    /\ exercise_multichoice_options' =
           cascade(exercise_multichoice_options, "exercise_mc", question_id)
    /\ last' = [Request("exercise_delete", 0, "multi-choice", question_id, 0, {}, TRUE)
                   EXCEPT !.user = u]
    /\ UNCHANGED <<lesson_tables, exercise_freetext, exercise_match,
                   exercise_match_options, group_tables, add_request>>

\* ExerciseMatchOptions.objects.filter(exercise_match=match).count()
pair_count(options, match_id) == Cardinality(referring(options, "exercise_match", match_id))

\* The loop "Create all the pairs for this exercise" of
\* ExerciseMatchListCreateView.post: the options table once the loop has ended,
\* and how it ended: "created" after the last pair, "incomplete" at a pair
\* without kanji or answer, "error" at an entry that has no .get (the
\* AttributeError leaves the handler there and then)
RECURSIVE create_pairs(_, _, _)
create_pairs(options, match_id, pairs_data) ==
    IF pairs_data = <<>> THEN [options |-> options, outcome |-> "created"]
    ELSE LET pair_data == Head(pairs_data)
         IN  IF pair_data = NotADict THEN [options |-> options, outcome |-> "error"]
             ELSE IF pair_data.kanji = "" \/ pair_data.answer = ""
             THEN [options |-> options, outcome |-> "incomplete"]
             ELSE create_pairs(
                      Append(options, [exercise_match |-> match_id,
                                       kanji |-> pair_data.kanji,
                                       answer |-> pair_data.answer]),
                      match_id, Tail(pairs_data))

\* too_few_pairs without the test len(pairs_data) < 2
too_few_pairs_only_empty(pairs_data) == pairs_data = <<>>

\* not pairs_data or len(pairs_data) < 2
too_few_pairs(pairs_data) == pairs_data = <<>> \/ Len(pairs_data) < 2

\* ExerciseMatchListCreateView.post
ExerciseMatchCreate(u, level, pairs_data) ==
    LET match_id == Len(exercise_match) + 1
        created == create_pairs(exercise_match_options, match_id, pairs_data)
    IN  /\ IF too_few_pairs(pairs_data)
           THEN \* 400 before anything is created
                /\ last' = [Request("exercise_create", 0, "pair-match", 0, 0, {}, FALSE)
                               EXCEPT !.data = pairs_data, !.user = u]
                /\ UNCHANGED <<exercise_match, exercise_match_options, add_request>>
           ELSE IF created.outcome = "incomplete"
           THEN \* exercise_match.delete(), which takes the created pairs with it
                /\ exercise_match' = Append(exercise_match, Deleted)
                /\ exercise_match_options' =
                       cascade(created.options, "exercise_match", match_id)
                /\ last' = [Request("exercise_create", 0, "pair-match", match_id,
                                    0, {}, FALSE)
                               EXCEPT !.data = pairs_data, !.user = u]
           ELSE /\ exercise_match' =
                       Append(exercise_match,
                              [jlpt_level |-> level,
                               pair_count |-> pair_count(created.options, match_id)])
                /\ exercise_match_options' = created.options
                /\ last' = [Request("exercise_create", 0, "pair-match", match_id, 0, {},
                                    created.outcome = "created")
                               EXCEPT !.data = pairs_data, !.user = u]
        /\ UNCHANGED <<lesson_tables, exercise_freetext, exercise_multichoice,
                       exercise_multichoice_options, group_tables, add_request>>

\* The containers of the library: ExerciseMatch.objects.annotate(pair_count=
\* Count('exercisematchoptions')).filter(pair_count=1)
library_exercises ==
    {m \in 1 .. Len(exercise_match) :
        Exists(exercise_match, m) /\ pair_count(exercise_match_options, m) = 1}

\* ExerciseMatchOptions.objects.filter(exercise_match__in=library_exercises,
\* kanji__iexact=kanji, answer__iexact=answer).exists()
pair_in_library(kanji, answer) ==
    \E i \in 1 .. Len(exercise_match_options) :
        /\ exercise_match_options[i] # Deleted
        /\ exercise_match_options[i].exercise_match \in library_exercises
        /\ iexact(exercise_match_options[i].kanji, kanji)
        /\ iexact(exercise_match_options[i].answer, answer)

\* PairLibraryView.post: a container holding the one new pair
PairLibraryCreate(u, kanji, answer, level) ==
    LET match_id == Len(exercise_match) + 1
    IN  /\ is_teacher(u)
        /\ IF kanji = "" \/ answer = "" \/ pair_in_library(kanji, answer)
           THEN \* 400
                /\ last' = [Request("pair_create", 0, "pair-match", 0, 0, {}, FALSE)
                               EXCEPT !.data = <<Pair(kanji, answer)>>]
                /\ UNCHANGED <<exercise_match, exercise_match_options, add_request>>
           ELSE /\ exercise_match' =
                       Append(exercise_match, [jlpt_level |-> level, pair_count |-> 1])
                /\ exercise_match_options' =
                       Append(exercise_match_options,
                              [exercise_match |-> match_id, kanji |-> kanji,
                               answer |-> answer])
                /\ last' = [Request("pair_create", 0, "pair-match", match_id, 0, {}, TRUE)
                               EXCEPT !.data = <<Pair(kanji, answer)>>]
        /\ UNCHANGED <<lesson_tables, exercise_freetext, exercise_multichoice,
                       exercise_multichoice_options, group_tables, add_request>>

\* copy_pairs for a loop that sets pair.exercise_match = new_exercise on the
\* selected pairs themselves
copy_pairs_moving(options, match_id, selected) ==
    [i \in 1 .. Len(options) |->
        IF i \in Range(selected) THEN [options[i] EXCEPT !.exercise_match = match_id]
        ELSE options[i]]

\* The loop "COPY (don't move) selected pairs to the new exercise": the options
\* table once the pairs with the ids of selected, a sequence in the order of
\* the queryset, have been copied
RECURSIVE copy_pairs(_, _, _)
copy_pairs(options, match_id, selected) ==
    IF selected = <<>> THEN options
    ELSE LET pair == options[Head(selected)]
         IN  copy_pairs(Append(options, [exercise_match |-> match_id,
                                         kanji |-> pair.kanji, answer |-> pair.answer]),
                        match_id, Tail(selected))

\* The ids of a set in ascending order
RECURSIVE ascending(_)
ascending(ids) == IF ids = {} THEN <<>> ELSE <<min(ids)>> \o ascending(ids \ {min(ids)})

\* CreateExerciseFromPairsView.post
CreateExerciseFromPairs(u, pair_ids, level) ==
    LET match_id == Len(exercise_match) + 1
        \* ExerciseMatchOptions.objects.filter(id__in=pair_ids)
        selected_pairs == {i \in Range(pair_ids) : Exists(exercise_match_options, i)}
    IN  /\ is_teacher(u)
        /\ IF Len(pair_ids) < 2 \/ Cardinality(selected_pairs) # Len(pair_ids)
           THEN \* 400
                /\ last' = [Request("exercise_from_pairs", 0, "pair-match", 0, 0, {}, FALSE)
                               EXCEPT !.data = pair_ids]
                /\ UNCHANGED <<exercise_match, exercise_match_options, add_request>>
           ELSE /\ exercise_match' =
                       Append(exercise_match,
                              [jlpt_level |-> level,
                               pair_count |-> Cardinality(selected_pairs)])
                /\ exercise_match_options' =
                       copy_pairs(exercise_match_options, match_id,
                                  ascending(selected_pairs))
                /\ last' = [Request("exercise_from_pairs", 0, "pair-match", match_id,
                                    0, {}, TRUE)
                               EXCEPT !.data = pair_ids]
        /\ UNCHANGED <<lesson_tables, exercise_freetext, exercise_multichoice,
                       exercise_multichoice_options, group_tables, add_request>>

\* ExerciseMatchListCreateView.delete
ExerciseMatchDelete(u, match_id) ==
    /\ Exists(exercise_match, match_id)
    /\ exercise_match' = [exercise_match EXCEPT ![match_id] = Deleted]
    /\ exercise_match_options' =
           cascade(exercise_match_options, "exercise_match", match_id)
    /\ last' = [Request("exercise_delete", 0, "pair-match", match_id, 0, {}, TRUE)
                   EXCEPT !.user = u]
    /\ UNCHANGED <<lesson_tables, exercise_freetext, exercise_multichoice,
                   exercise_multichoice_options, group_tables, add_request>>

\* What `last` records of a request on an exercise store that ends before the
\* store is read or written, or that finds no row
Unserved(op, u, ty, id, outcome) ==
    [Request(op, 0, ty, id, 0, {}, FALSE) EXCEPT !.user = u, !.status = outcome]

\* ExerciseFreetextListCreateView.post, ExerciseFreetextDetailView.put and
\* .delete: the 403 of "if not request.user.is_teacher"
ExerciseFreetextForbidden(u, op, pk) ==
    /\ ~is_teacher(u)
    /\ op \in {"exercise_create", "exercise_update", "exercise_delete"}
    /\ last' = Unserved(op, u, "freetext", IF op = "exercise_create" THEN 0 ELSE pk,
                        "forbidden")
    /\ UNCHANGED <<lesson_tables, exercise_freetext, exercise_multichoice, exercise_match,
                   option_tables, group_tables, add_request>>

\* ExerciseFreetextDetailView.get of a row that exists
ExerciseFreetextGet(u, pk) ==
    /\ Exists(exercise_freetext, pk)
    /\ last' = [Request("exercise_get", 0, "freetext", pk, 0, {}, TRUE) EXCEPT !.user = u]
    /\ UNCHANGED <<lesson_tables, exercise_freetext, exercise_multichoice, exercise_match,
                   option_tables, group_tables, add_request>>

\* ExerciseFreetextDetailView.get_object for a pk with no row, reached from
\* get, and from put and delete once the caller is a teacher: "raise Http404"
\* names something views.py never imports, so the statement raises NameError
\* and the request ends in an exception no handler catches
ExerciseFreetextMissing(u, op, pk) ==
    /\ op \in {"exercise_get", "exercise_update", "exercise_delete"}
    /\ op = "exercise_get" \/ is_teacher(u)
    /\ ~Exists(exercise_freetext, pk)
    /\ last' = Unserved(op, u, "freetext", pk, "server_error")
    /\ UNCHANGED <<lesson_tables, exercise_freetext, exercise_multichoice, exercise_match,
                   option_tables, group_tables, add_request>>

\* ExerciseMultiChoiceView.delete, except ExerciseMultiChoice.DoesNotExist: 404
ExerciseMultiChoiceMissing(u, question_id) ==
    /\ ~Exists(exercise_multichoice, question_id)
    /\ last' = Unserved("exercise_delete", u, "multi-choice", question_id, "not_found")
    /\ UNCHANGED <<lesson_tables, exercise_freetext, exercise_multichoice, exercise_match,
                   option_tables, group_tables, add_request>>

\* ExerciseMatchListCreateView.delete, except ExerciseMatch.DoesNotExist: 404
ExerciseMatchMissing(u, match_id) ==
    /\ ~Exists(exercise_match, match_id)
    /\ last' = Unserved("exercise_delete", u, "pair-match", match_id, "not_found")
    /\ UNCHANGED <<lesson_tables, exercise_freetext, exercise_multichoice, exercise_match,
                   option_tables, group_tables, add_request>>

\* ---- lessons --------------------------------------------------------------
\* handler_lesson_after_save for a row whose self.lesson is a second instance
handler_lesson_after_save_stale(held, recomputed) == held

\* The Lesson instance a handler holds once LessonsExercises.save has run on a
\* row made by objects.create(lesson=lesson, ...): self.lesson is the handler's
\* own instance, so update_lesson_stats has set and saved its fields.
handler_lesson_after_save(held, recomputed) == recomputed

\* The Lesson instance a handler holds once LessonsExercises.delete has run on
\* a row read by get_object_or_404: self.lesson is a second instance, read
\* from the table, and the handler's own keeps the fields it was loaded with.
handler_lesson_after_delete(held, recomputed) == held

\* LessonListCreateView.perform_create and LessonCreateSerializer.create:
\* data holds the values the request carries for the derived fields; those of
\* read_only_fields (lesson_type, exercise_count) never reach validated_data,
\* jlpt_level does.
LessonCreate(u, data, exercises) ==
    /\ is_teacher(u)
    /\ Len(lesson) < MaxLessons
    /\ LET id == Len(lesson) + 1
           \* Lesson.objects.create(**validated_data): the model's defaults
           created == [teacher |-> u,
                       lesson_type |-> "mixed",
                       jlpt_level |-> IF "jlpt_level" \in DOMAIN data
                                      THEN data.jlpt_level ELSE "1-5",
                       exercise_count |-> 0]
           rows == create_rows(<<>>, exercises)
           ok == Len(rows) = Len(exercises)
           \* LessonsExercises.save runs update_lesson_stats on this same
           \* instance after every insert
           saved == IF rows = <<>> THEN created
                    ELSE handler_lesson_after_save(created,
                             update_lesson_stats(created, rows, exercise_freetext,
                                                 exercise_multichoice, exercise_match))
           \* lesson.exercise_count = len(exercises_data); lesson.save()
           returned == IF ok THEN [saved EXCEPT !.exercise_count = Len(exercises)]
                       ELSE saved
       IN  /\ lesson' = Append(lesson, returned)
           /\ lessons_exercises' = Append(lessons_exercises, rows)
           /\ last' = [Request("lesson_create", id, "", 0, Len(rows), DOMAIN data, ok)
                          EXCEPT !.user = u]
    /\ UNCHANGED <<exercise_freetext, exercise_multichoice, exercise_match,
                   option_tables, group_tables, add_request>>

\* LessonExercisesView.post
LessonExercisesPost(u, lesson_id, exercises) ==
    /\ is_teacher(u)
    /\ Exists(lesson, lesson_id)
    /\ owner(lesson[lesson_id], u)
    /\ LET before == lessons_exercises[lesson_id]
           rows == create_rows(before, exercises)
           ok == Len(rows) = Len(before) + Len(exercises)
           \* each insert's save() recomputes the view's own instance
           saved == IF rows = before THEN lesson[lesson_id]
                    ELSE handler_lesson_after_save(lesson[lesson_id],
                             update_lesson_stats(lesson[lesson_id], rows, exercise_freetext,
                                                 exercise_multichoice, exercise_match))
           \* lesson.exercise_count = ...count(); lesson.save()
           returned == IF ok THEN [saved EXCEPT !.exercise_count = row_count(rows)]
                       ELSE saved
       IN  /\ lesson' = [lesson EXCEPT ![lesson_id] = returned]
           /\ lessons_exercises' = [lessons_exercises EXCEPT ![lesson_id] = rows]
           /\ last' = [Request("lesson_add", lesson_id, "", 0, Len(rows) - Len(before), {}, ok)
                          EXCEPT !.count_before_add = lesson[lesson_id].exercise_count,
                                 !.user = u]
    /\ UNCHANGED <<exercise_freetext, exercise_multichoice, exercise_match,
                   option_tables, group_tables, add_request>>

\* RemoveAt for a delete() that leaves the row in the table
RemoveAt_nothing(s, i) == s

\* The rows of a lesson once lesson_exercise.delete() has removed the i-th
RemoveAt(s, i) == [j \in 1 .. Len(s) - 1 |-> IF j < i THEN s[j] ELSE s[j + 1]]

\* LessonExercisesView.delete; row is the position of the LessonsExercises
\* row the URL names, 0 when the URL names none (exercise_id=None)
LessonExercisesDelete(u, lesson_id, row) ==
    /\ is_teacher(u)
    /\ Exists(lesson, lesson_id)
    /\ owner(lesson[lesson_id], u)
    /\ row \in 0 .. Len(lessons_exercises[lesson_id])
    /\ LET \* lesson = get_object_or_404(Lesson, id=lesson_id)
           held == lesson[lesson_id]
           rows == IF row = 0 THEN lessons_exercises[lesson_id]
                   ELSE RemoveAt(lessons_exercises[lesson_id], row)
           \* lesson_exercise.delete() recomputes and saves the lesson's row
           after == IF row = 0 THEN held
                    ELSE handler_lesson_after_delete(held,
                             update_lesson_stats(held, rows, exercise_freetext,
                                                 exercise_multichoice, exercise_match))
           \* lesson.exercise_count = ...count(); lesson.save() writes every
           \* field of the handler's instance over that row
           returned == [after EXCEPT !.exercise_count = row_count(rows)]
           \* the row is the one row that the request before this one added
           undoes_add == /\ last.op = "lesson_add"
                         /\ last.lesson = lesson_id
                         /\ last.ok
                         /\ last.rows = 1
                         /\ row = Len(lessons_exercises[lesson_id])
       IN  /\ lesson' = [lesson EXCEPT ![lesson_id] = returned]
           /\ lessons_exercises' = [lessons_exercises EXCEPT ![lesson_id] = rows]
           /\ last' = [Request("lesson_remove", lesson_id, "", 0, row, {}, TRUE)
                          EXCEPT !.count_before_add =
                              IF undoes_add THEN last.count_before_add ELSE -1,
                                 !.user = u]
    /\ UNCHANGED <<exercise_freetext, exercise_multichoice, exercise_match,
                   option_tables, group_tables, add_request>>

\* LessonDetailView.perform_destroy: instance.delete(), and on_delete=CASCADE
\* of LessonsExercises.lesson takes the lesson's rows
LessonDestroy(u, pk) ==
    /\ is_teacher(u)
    /\ Exists(lesson, pk)
    /\ owner(lesson[pk], u)
    /\ lesson' = [lesson EXCEPT ![pk] = Deleted]
    /\ lessons_exercises' = [lessons_exercises EXCEPT ![pk] = <<>>]
    /\ last' = [Request("lesson_delete", pk, "", 0, 0, {}, TRUE) EXCEPT !.user = u]
    /\ UNCHANGED <<exercise_freetext, exercise_multichoice, exercise_match,
                   option_tables, group_tables, add_request>>

\* What `last` records of a lesson request that ends with 403
Forbidden(op, u, lesson_id) ==
    [Request(op, lesson_id, "", 0, 0, {}, FALSE) EXCEPT !.user = u, !.status = "forbidden"]

\* LessonExercisesView.post and .delete, the two 403 returns: the caller is
\* not a teacher, or get_object_or_404 finds the lesson and it is another's
LessonExercisesForbidden(u, op, lesson_id) ==
    /\ op \in {"lesson_add", "lesson_remove"}
    /\ ~is_teacher(u) \/ (Exists(lesson, lesson_id) /\ ~owner(lesson[lesson_id], u))
    /\ last' = Forbidden(op, u, lesson_id)
    /\ UNCHANGED <<lesson_tables, exercise_freetext, exercise_multichoice, exercise_match,
                   option_tables, group_tables, add_request>>

\* LessonDetailView.perform_update and .perform_destroy, PermissionDenied:
\* get_object has found the lesson, and the caller is not a teacher or the
\* lesson is another's
LessonDetailForbidden(u, op, pk) ==
    /\ op \in {"lesson_update", "lesson_delete"}
    /\ Exists(lesson, pk)
    /\ ~is_teacher(u) \/ ~owner(lesson[pk], u)
    /\ last' = Forbidden(op, u, pk)
    /\ UNCHANGED <<lesson_tables, exercise_freetext, exercise_multichoice, exercise_match,
                   option_tables, group_tables, add_request>>

\* The calls in progress once call c has returned
end_call(calls, c) == [j \in 1 .. Len(calls) - 1 |-> IF j < c THEN calls[j] ELSE calls[j + 1]]

\* ---- the add-exercise request and the lesson creation, statement by
\* ---- statement ------------------------------------------------------------
\* The calls in progress once one more call on lesson l has begun: each call on
\* l is marked as running together with another
together(calls, l) ==
    [j \in 1 .. Len(calls) |->
        IF calls[j].lesson = l THEN [calls[j] EXCEPT !.overlapped = TRUE] ELSE calls[j]]

\* A call in progress: todo are the entries its loop has yet to insert, held is
\* the Lesson instance of the handler, rows what update_lesson_stats has read,
\* inserted the number of rows the call has inserted
Call(op, u, l, exercises, held, overlapped) ==
    [op |-> op, user |-> u, lesson |-> l, todo |-> exercises, n |-> Len(exercises),
     held |-> held, rows |-> <<>>, inserted |-> 0, overlapped |-> overlapped,
     pc |-> IF exercises # <<>> THEN "insert"
            ELSE IF op = "lesson_add" THEN "count" ELSE "save"]

\* What `last` records of a call that has ended
Ended(call, ok) ==
    [Request(call.op, call.lesson, "", 0, call.inserted, {}, ok)
        EXCEPT !.user = call.user, !.data = <<call.overlapped>>]

\* LessonExercisesView.post up to the loop: the role test, get_object_or_404,
\* the ownership test
PostBegin(u, lesson_id, exercises) ==
    /\ is_teacher(u)
    /\ Exists(lesson, lesson_id)
    /\ owner(lesson[lesson_id], u)
    /\ Len(add_request) < MaxCalls
    /\ add_request' =
           Append(together(add_request, lesson_id),
                  Call("lesson_add", u, lesson_id, exercises, lesson[lesson_id],
                       \E j \in 1 .. Len(add_request) : add_request[j].lesson = lesson_id))
    /\ UNCHANGED <<lesson_tables, exercise_freetext, exercise_multichoice, exercise_match,
                   option_tables, group_tables, last>>

\* LessonCreateSerializer.create up to the loop: Lesson.objects.create
CreateBegin(u, exercises) ==
    /\ is_teacher(u)
    /\ Len(lesson) < MaxLessons
    /\ Len(add_request) < MaxCalls
    /\ LET created == [teacher |-> u, lesson_type |-> "mixed", jlpt_level |-> "1-5",
                       exercise_count |-> 0]
       IN  /\ lesson' = Append(lesson, created)
           /\ lessons_exercises' = Append(lessons_exercises, <<>>)
           /\ add_request' =
                  Append(add_request,
                         Call("lesson_create", u, Len(lesson) + 1, exercises, created, FALSE))
    /\ UNCHANGED <<exercise_freetext, exercise_multichoice, exercise_match,
                   option_tables, group_tables, last>>

\* LessonsExercises.save, super().save(): the INSERT of the next entry of call
\* c, or the IntegrityError that ends the call
InsertRow(c) ==
    /\ c \in 1 .. Len(add_request)
    /\ add_request[c].pc = "insert"
    /\ LET call == add_request[c]
           entry == Head(call.todo)
       IN  IF violates_unique(lessons_exercises[call.lesson], entry)
           THEN /\ add_request' = end_call(add_request, c)
                /\ last' = Ended(call, FALSE)
                /\ UNCHANGED lessons_exercises
           ELSE /\ lessons_exercises' =
                       [lessons_exercises EXCEPT ![call.lesson] = Append(@, entry)]
                /\ add_request' = [add_request EXCEPT ![c].pc = "read",
                                                      ![c].inserted = @ + 1,
                                                      ![c].todo = Tail(@)]
                /\ UNCHANGED last
    /\ UNCHANGED <<lesson, exercise_freetext, exercise_multichoice, exercise_match,
                   option_tables, group_tables>>

\* update_lesson_stats of call c, LessonsExercises.objects.filter(lesson=self):
\* the rows the statistics are computed from
ReadRows(c) ==
    /\ c \in 1 .. Len(add_request)
    /\ add_request[c].pc = "read"
    /\ add_request' =
           [add_request EXCEPT ![c].rows = lessons_exercises[add_request[c].lesson],
                               ![c].pc = "write"]
    /\ UNCHANGED <<lesson_tables, exercise_freetext, exercise_multichoice, exercise_match,
                   option_tables, group_tables, last>>

\* update_lesson_stats of call c, self.save(): every field of the handler's
\* instance goes to the lesson's row
SaveStats(c) ==
    /\ c \in 1 .. Len(add_request)
    /\ add_request[c].pc = "write"
    /\ LET call == add_request[c]
           saved == handler_lesson_after_save(call.held,
                        update_lesson_stats(call.held, call.rows, exercise_freetext,
                                            exercise_multichoice, exercise_match))
       IN  /\ lesson' = [lesson EXCEPT ![call.lesson] = saved]
           /\ add_request' =
                  [add_request EXCEPT ![c].held = saved,
                                      ![c].rows = <<>>,
                                      ![c].pc = IF call.todo # <<>> THEN "insert"
                                                ELSE IF call.op = "lesson_add" THEN "count"
                                                ELSE "save"]
    /\ UNCHANGED <<lessons_exercises, exercise_freetext, exercise_multichoice,
                   exercise_match, option_tables, group_tables, last>>

\* LessonExercisesView.post, lesson.exercise_count =
\* LessonsExercises.objects.filter(lesson=lesson).count()
CountRows(c) ==
    /\ c \in 1 .. Len(add_request)
    /\ add_request[c].pc = "count"
    /\ add_request' =
           [add_request EXCEPT
               ![c].held.exercise_count = row_count(lessons_exercises[add_request[c].lesson]),
               ![c].pc = "save"]
    /\ UNCHANGED <<lesson_tables, exercise_freetext, exercise_multichoice, exercise_match,
                   option_tables, group_tables, last>>

\* lesson.save() that ends the call and the 201; the creation sets
\* lesson.exercise_count = len(exercises_data) first
SaveLesson(c) ==
    /\ c \in 1 .. Len(add_request)
    /\ add_request[c].pc = "save"
    /\ LET call == add_request[c]
           returned == IF call.op = "lesson_create"
                       THEN [call.held EXCEPT !.exercise_count = call.n]
                       ELSE call.held
       IN  /\ lesson' = [lesson EXCEPT ![call.lesson] = returned]
           /\ add_request' = end_call(add_request, c)
           /\ last' = Ended(call, TRUE)
    /\ UNCHANGED <<lessons_exercises, exercise_freetext, exercise_multichoice,
                   exercise_match, option_tables, group_tables>>

\* ---- groups ---------------------------------------------------------------
\* What `last` records of a request on a membership
GroupRequest(op, u, student, group_id, ok) ==
    [Request(op, 0, "", 0, 0, {}, ok) EXCEPT !.user = u, !.data = <<student, group_id>>]

\* CreateGroupView.perform_create
CreateGroup(u) ==
    /\ is_teacher(u)
    /\ Len(group) < MaxGroups
    /\ group' = Append(group, [teacher |-> u])
    /\ last' = Request("group_create", 0, "", 0, 0, {}, TRUE)
    /\ UNCHANGED <<lesson_tables, exercise_freetext, exercise_multichoice, exercise_match,
                   option_tables, groups_students, join_request, add_request>>

\* GroupsStudents.objects.filter(group=group, student=user)
memberships(student, group_id) ==
    {i \in 1 .. Len(groups_students) :
        /\ groups_students[i] # Deleted
        /\ groups_students[i].student = student
        /\ groups_students[i].group = group_id}

\* RequestToJoinGroup.post, up to get_object_or_404(Group, id=group_id): the
\* call is in progress, about to run the .exists() query
JoinBegin(u, group_id) ==
    /\ ~is_teacher(u)
    /\ Exists(group, group_id)
    /\ Len(join_request) < MaxCalls
    /\ join_request' = Append(join_request,
                              [student |-> u, group |-> group_id, pc |-> "exists"])
    /\ UNCHANGED <<lesson_tables, exercise_freetext, exercise_multichoice, exercise_match,
                   option_tables, group, groups_students, last, add_request>>

\* RequestToJoinGroup.post, the query already_exists = ....exists() of call c:
\* 400 when a row is there, else on to the insert
JoinExists(c) ==
    /\ c \in 1 .. Len(join_request)
    /\ join_request[c].pc = "exists"
    /\ IF memberships(join_request[c].student, join_request[c].group) # {}
       THEN /\ join_request' = end_call(join_request, c)
            /\ last' = GroupRequest("group_join", join_request[c].student,
                                     join_request[c].student, join_request[c].group,
                                     FALSE)
       ELSE /\ join_request' = [join_request EXCEPT ![c].pc = "create"]
            /\ UNCHANGED last
    /\ UNCHANGED <<lesson_tables, exercise_freetext, exercise_multichoice, exercise_match,
                   option_tables, group, groups_students, add_request>>

\* RequestToJoinGroup.post, GroupsStudents.objects.create(group=group,
\* student=user) of call c and the 201
JoinCreate(c) ==
    /\ c \in 1 .. Len(join_request)
    /\ join_request[c].pc = "create"
    /\ Len(groups_students) < MaxMemberships
    /\ groups_students' = Append(groups_students,
                                 [student |-> join_request[c].student,
                                  group |-> join_request[c].group,
                                  verification_status |-> FALSE])
    /\ join_request' = end_call(join_request, c)
    /\ last' = GroupRequest("group_join", join_request[c].student,
                             join_request[c].student, join_request[c].group, TRUE)
    /\ UNCHANGED <<lesson_tables, exercise_freetext, exercise_multichoice, exercise_match,
                   option_tables, group, add_request>>

\* RequestToJoinGroup.delete: .get() finds the one row and deletes it; with no
\* row it is a 404, with several MultipleObjectsReturned ends the request
JoinWithdraw(u, group_id) ==
    /\ Exists(group, group_id)
    /\ LET found == memberships(u, group_id)
       IN  IF Cardinality(found) = 1
           THEN /\ groups_students' =
                       [groups_students EXCEPT ![CHOOSE i \in found : TRUE] = Deleted]
                /\ last' = GroupRequest("group_withdraw", u, u, group_id, TRUE)
           ELSE /\ UNCHANGED groups_students
                /\ last' = GroupRequest("group_withdraw", u, u, group_id, FALSE)
    /\ UNCHANGED <<lesson_tables, exercise_freetext, exercise_multichoice, exercise_match,
                   option_tables, group, join_request, add_request>>

\* ApproveRequestView.post
ApproveRequest(u, group_id, student_id) ==
    /\ is_teacher(u)
    /\ Exists(group, group_id)
    /\ owner(group[group_id], u)
    /\ LET found == memberships(student_id, group_id)
       IN  IF Cardinality(found) = 1
           THEN /\ groups_students' =
                       [groups_students EXCEPT
                           ![CHOOSE i \in found : TRUE].verification_status = TRUE]
                /\ last' = GroupRequest("group_approve", u, student_id, group_id, TRUE)
           ELSE /\ UNCHANGED groups_students
                /\ last' = GroupRequest("group_approve", u, student_id, group_id, FALSE)
    /\ UNCHANGED <<lesson_tables, exercise_freetext, exercise_multichoice, exercise_match,
                   option_tables, group, join_request, add_request>>

\* CancelRequestView.delete: only a row of the group that is still pending
CancelRequest(u, group_id, request_id) ==
    /\ Exists(group, group_id)
    /\ owner(group[group_id], u)
    /\ Exists(groups_students, request_id)
    /\ groups_students[request_id].group = group_id
    /\ ~groups_students[request_id].verification_status
    /\ groups_students' = [groups_students EXCEPT ![request_id] = Deleted]
    /\ last' = GroupRequest("group_cancel", u, groups_students[request_id].student,
                             group_id, TRUE)
    /\ UNCHANGED <<lesson_tables, exercise_freetext, exercise_multichoice, exercise_match,
                   option_tables, group, join_request, add_request>>

Next ==
    \/ \E u \in Users, level \in JlptLevels : ExerciseFreetextCreate(u, level)
    \/ \E u \in Users, pk \in ExIds, level \in JlptLevels : ExerciseFreetextPut(u, pk, level)
    \/ \E u \in Users, pk \in ExIds : ExerciseFreetextDelete(u, pk)
    \/ /\ Len(exercise_multichoice) < MaxExId
       /\ \E level \in JlptLevels : ExerciseMultiChoiceCreate(author, level, SampleOptions)
    \/ \E question_id \in ExIds : ExerciseMultiChoiceDelete(author, question_id)
    \/ /\ Len(exercise_match) < MaxExId
       /\ \E level \in JlptLevels, n \in 2 .. MaxPairs :
              ExerciseMatchCreate(author, level, SubSeq(SamplePairs, 1, n))
    \/ /\ Len(exercise_match) < MaxExId
       /\ \E u \in Users, level \in JlptLevels :
              PairLibraryCreate(u, SamplePairs[1].kanji, SamplePairs[1].answer, level)
    \/ \E match_id \in ExIds : ExerciseMatchDelete(author, match_id)
    \/ \E u \in Users, data \in LessonData, exercises \in ExerciseLists :
           LessonCreate(u, data, exercises)
    \/ \E u \in Users, lesson_id \in 1 .. MaxLessons, exercises \in ExerciseLists :
           LessonExercisesPost(u, lesson_id, exercises)
    \/ \E u \in Users, lesson_id \in 1 .. MaxLessons, row \in 0 .. 3 * MaxExId :
           LessonExercisesDelete(u, lesson_id, row)

Spec == Init /\ [][Next]_vars

\* LessonDetailView.perform_update (PUT / PATCH) through LessonDetailSerializer,
\* which declares no read-only field but teacher: ModelSerializer.update sets
\* every field the request carries and saves.
LessonUpdate(u, pk, data) ==
    /\ is_teacher(u)
    /\ Exists(lesson, pk)
    /\ owner(lesson[pk], u)
    /\ lesson' = [lesson EXCEPT ![pk] =
                     [f \in DOMAIN lesson[pk] |->
                         IF f \in DOMAIN data THEN data[f] ELSE lesson[pk][f]]]
    /\ last' = [Request("lesson_update", pk, "", 0, 0, DOMAIN data, TRUE)
                   EXCEPT !.user = u]
    /\ UNCHANGED <<lessons_exercises, exercise_freetext, exercise_multichoice,
                   exercise_match, option_tables, group_tables, add_request>>

\* The lesson requests, update included, over a freetext store
NextUpdate ==
    \/ \E u \in Users, level \in JlptLevels : ExerciseFreetextCreate(u, level)
    \/ \E u \in Users, pk \in ExIds : ExerciseFreetextDelete(u, pk)
    \/ \E u \in Users, data \in LessonData, exercises \in ExerciseLists :
           LessonCreate(u, data, exercises)
    \/ \E u \in Users, lesson_id \in 1 .. MaxLessons, exercises \in ExerciseLists :
           LessonExercisesPost(u, lesson_id, exercises)
    \/ \E u \in Users, lesson_id \in 1 .. MaxLessons, row \in 0 .. 3 * MaxExId :
           LessonExercisesDelete(u, lesson_id, row)
    \/ \E u \in Users, pk \in 1 .. MaxLessons, data \in LessonData :
           LessonUpdate(u, pk, data)

SpecUpdate == Init /\ [][NextUpdate]_vars

\* request.data.get('jlpt_level', 5): the level of a pair whose request
\* carries none
default_jlpt_level == 5

\* The requests on the pair-match store, with every shape of pair list; the
\* level, which no rule on pairs reads, is the default one throughout
NextPairs ==
    \/ /\ Len(exercise_match) < MaxMatch
       /\ \E pairs_data \in PairLists :
              ExerciseMatchCreate(author, default_jlpt_level, pairs_data)
    \/ /\ Len(exercise_match) < MaxMatch
       /\ \E u \in Users, pair_data \in PairData \ {NotADict} :
              PairLibraryCreate(u, pair_data.kanji, pair_data.answer, default_jlpt_level)
    \/ /\ Len(exercise_match) < MaxMatch
       /\ \E u \in Users,
             pair_ids \in SeqsUpTo(1 .. Len(exercise_match_options) + 1, MaxPairs) :
              CreateExerciseFromPairs(u, pair_ids, default_jlpt_level)
    \/ \E match_id \in 1 .. MaxMatch : ExerciseMatchDelete(author, match_id)

SpecPairs == Init /\ [][NextPairs]_vars

\* The requests on the multiple-choice store, with every shape of option list
NextQuestions ==
    \/ /\ Len(exercise_multichoice) < MaxQuestions
       /\ \E level \in JlptLevels, options_data \in OptionLists :
              ExerciseMultiChoiceCreate(author, level, options_data)
    \/ \E question_id \in 1 .. MaxQuestions : ExerciseMultiChoiceDelete(author, question_id)

SpecQuestions == Init /\ [][NextQuestions]_vars

\* The requests on groups and memberships, the join request step by step
NextGroups ==
    \/ \E u \in Callers : CreateGroup(u)
    \/ \E u \in Callers, group_id \in 1 .. MaxGroups : JoinBegin(u, group_id)
    \/ \E c \in 1 .. MaxCalls : JoinExists(c)
    \/ \E c \in 1 .. MaxCalls : JoinCreate(c)
    \/ \E u \in Callers, group_id \in 1 .. MaxGroups : JoinWithdraw(u, group_id)
    \/ \E u \in Callers, group_id \in 1 .. MaxGroups, student_id \in Callers :
           ApproveRequest(u, group_id, student_id)
    \/ \E u \in Callers, group_id \in 1 .. MaxGroups, request_id \in 1 .. MaxMemberships :
           CancelRequest(u, group_id, request_id)

SpecGroups == Init /\ [][NextGroups]_vars

\* The lesson requests by every caller, with tags that name no exercise kind
NextAccess ==
    \/ \E u \in Callers, exercises \in SubmittedLists :
           LessonCreate(u, [x \in {} |-> 0], exercises)
    \/ \E u \in Callers, lesson_id \in 1 .. MaxLessons, exercises \in SubmittedLists :
           LessonExercisesPost(u, lesson_id, exercises)
    \/ \E u \in Callers, lesson_id \in 1 .. MaxLessons, row \in 0 .. MaxList :
           LessonExercisesDelete(u, lesson_id, row)
    \/ \E u \in Callers, pk \in 1 .. MaxLessons, data \in LessonData :
           LessonUpdate(u, pk, data)
    \/ \E u \in Callers, pk \in 1 .. MaxLessons : LessonDestroy(u, pk)
    \/ \E u \in Callers, lesson_id \in 1 .. MaxLessons,
          op \in {"lesson_add", "lesson_remove"} :
           LessonExercisesForbidden(u, op, lesson_id)
    \/ \E u \in Callers, pk \in 1 .. MaxLessons, op \in {"lesson_update", "lesson_delete"} :
           LessonDetailForbidden(u, op, pk)

SpecAccess == Init /\ [][NextAccess]_vars

\* The add-exercise requests and lesson creations in progress at the same
\* time, each served statement by statement
NextRace ==
    \/ \E u \in Users, exercises \in SeqsUpTo(ExerciseRefs, MaxEntries) :
           CreateBegin(u, exercises)
    \/ \E u \in Users, lesson_id \in 1 .. MaxLessons,
          exercises \in SeqsUpTo(ExerciseRefs, MaxEntries) :
           PostBegin(u, lesson_id, exercises)
    \/ \E c \in 1 .. MaxCalls : InsertRow(c)
    \/ \E c \in 1 .. MaxCalls : ReadRows(c)
    \/ \E c \in 1 .. MaxCalls : SaveStats(c)
    \/ \E c \in 1 .. MaxCalls : CountRows(c)
    \/ \E c \in 1 .. MaxCalls : SaveLesson(c)

SpecRace == Init /\ [][NextRace]_vars

\* The requests on the three exercise stores by every caller, with the ids
\* that have no row
NextStores ==
    \/ \E u \in Callers : ExerciseFreetextCreate(u, default_jlpt_level)
    \/ \E u \in Callers, pk \in 1 .. MaxExId + 1, level \in JlptLevels :
           ExerciseFreetextPut(u, pk, level)
    \/ \E u \in Callers, pk \in 1 .. MaxExId + 1 : ExerciseFreetextDelete(u, pk)
    \/ \E u \in Callers, pk \in 1 .. MaxExId + 1 : ExerciseFreetextGet(u, pk)
    \/ \E u \in Callers, pk \in 1 .. MaxExId + 1,
          op \in {"exercise_create", "exercise_update", "exercise_delete"} :
           ExerciseFreetextForbidden(u, op, pk)
    \/ \E u \in Callers, pk \in 1 .. MaxExId + 1,
          op \in {"exercise_get", "exercise_update", "exercise_delete"} :
           ExerciseFreetextMissing(u, op, pk)
    \/ /\ Len(exercise_multichoice) < MaxExId
       /\ \E u \in Callers : ExerciseMultiChoiceCreate(u, default_jlpt_level, SampleOptions)
    \/ \E u \in Callers, question_id \in 1 .. MaxExId + 1 :
           ExerciseMultiChoiceDelete(u, question_id)
    \/ \E u \in Callers, question_id \in 1 .. MaxExId + 1 :
           ExerciseMultiChoiceMissing(u, question_id)
    \/ /\ Len(exercise_match) < MaxExId
       /\ \E u \in Callers :
              ExerciseMatchCreate(u, default_jlpt_level, SubSeq(SamplePairs, 1, 2))
    \/ \E u \in Callers, match_id \in 1 .. MaxExId + 1 : ExerciseMatchDelete(u, match_id)
    \/ \E u \in Callers, match_id \in 1 .. MaxExId + 1 : ExerciseMatchMissing(u, match_id)

SpecStores == Init /\ [][NextStores]_vars

\* ==== properties ==========================================================
LessonIds == {l \in 1 .. Len(lesson) : Exists(lesson, l)}

derived(r) == <<r.lesson_type, r.jlpt_level, r.exercise_count>>

\* What update_lesson_stats yields for lesson l in the current state
recompute(l) ==
    update_lesson_stats(lesson[l], lessons_exercises[l], exercise_freetext,
                        exercise_multichoice, exercise_match)

Ref(ty, id) == [exercise_id |-> id, exercise_type |-> ty]

\* The row's (type, id) names a record of the table its type names
Resolves(r) ==
    \/ r.exercise_type = "freetext" /\ Exists(exercise_freetext, r.exercise_id)
    \/ r.exercise_type = "multi-choice" /\ Exists(exercise_multichoice, r.exercise_id)
    \/ r.exercise_type = "pair-match" /\ Exists(exercise_match, r.exercise_id)

\* The row names an ExerciseMatch that holds fewer than 2 options
IsLibraryPair(r) ==
    /\ r.exercise_type = "pair-match"
    /\ Exists(exercise_match, r.exercise_id)
    /\ exercise_match[r.exercise_id].pair_count < 2

LevelOf(r) ==
    IF r.exercise_type = "freetext" THEN exercise_freetext[r.exercise_id].jlpt_level
    ELSE IF r.exercise_type = "multi-choice"
         THEN exercise_multichoice[r.exercise_id].jlpt_level
    ELSE exercise_match[r.exercise_id].jlpt_level

ResolvedRows(rows) == SelectSeq(rows, Resolves)
ContentRows(rows) == SelectSeq(rows, LAMBDA r : Resolves(r) /\ ~IsLibraryPair(r))
ResolvedLevels(rows) == {LevelOf(r) : r \in Range(ResolvedRows(rows))}

JustAdded(l) ==
    /\ last.op \in {"lesson_add", "lesson_create"}
    /\ last.lesson = l
    /\ last.ok
    /\ last.rows >= 1

\* C1: every lesson that has no LessonsExercises row has lesson_type "empty",
\* jlpt_level "unknown" and exercise_count 0.
C1_EmptyLessonHasEmptyStats ==
    \A l \in LessonIds :
        lessons_exercises[l] = <<>> => derived(lesson[l]) = <<"empty", "unknown", 0>>

\* C2: when the removal of a row of a lesson has returned, the lesson's three
\* derived fields are what recompute yields on the remaining rows.
C2_RemoveLeavesRecomputedStats ==
    (last.op = "lesson_remove" /\ last.rows # 0)
        => derived(lesson[last.lesson]) = derived(recompute(last.lesson))

C4_ExerciseDeleteCascades ==
    last.op = "exercise_delete" =>
        \A l \in LessonIds :
            Ref(last.exercise_type, last.exercise_id) \notin Range(lessons_exercises[l])

\* C5: the deletion of an exercise record leaves every lesson that referred to
\* it with the derived fields recompute yields on its other rows.
C5_ExerciseDeleteRecomputes ==
    [][last'.op = "exercise_delete" =>
          \A l \in LessonIds :
              LET ref == Ref(last'.exercise_type, last'.exercise_id)
                  remaining == SelectSeq(lessons_exercises[l], LAMBDA r : r # ref)
              IN  ref \in Range(lessons_exercises[l]) =>
                      derived(lesson'[l]) =
                          derived(update_lesson_stats(lesson'[l], remaining,
                                      exercise_freetext', exercise_multichoice',
                                      exercise_match'))]_vars

\* C6: after a lesson create or update request, every derived field the
\* request carried a value for holds the value recompute yields.
C6_DerivedFieldsNotSettable ==
    (last.op \in {"lesson_create", "lesson_update"} /\ last.ok)
        => \A f \in last.carried :
               lesson[last.lesson][f] = recompute(last.lesson)[f]

\* C7: recompute counts every row, and the rows that do not resolve add nothing
\* to the set of types nor to the set of levels.
C7_DanglingRowsAreSkipped ==
    \A l \in LessonIds :
        LET rows == lessons_exercises[l]
        IN  rows # <<>> =>
                /\ recompute(l).exercise_count = Len(rows)
                /\ collect_stats(rows, exercise_freetext, exercise_multichoice,
                                 exercise_match)
                   = collect_stats(ResolvedRows(rows), exercise_freetext,
                                   exercise_multichoice, exercise_match)

\* C8: in recompute the pair-match rows that resolve to a library pair add
\* nothing to the set of types nor to the set of levels.
C8_LibraryPairsAreSkipped ==
    \A l \in LessonIds :
        LET rows == lessons_exercises[l]
        IN  collect_stats(rows, exercise_freetext, exercise_multichoice, exercise_match)
            = collect_stats(SelectSeq(rows, LAMBDA r : ~IsLibraryPair(r)),
                            exercise_freetext, exercise_multichoice, exercise_match)

\* C9: for a lesson with at least one row recompute sets lesson_type to the one
\* type of its resolved, non-library rows, and to "mixed" when these rows have
\* several types or there is none.
C9_LessonTypeOfContentRows ==
    \A l \in LessonIds :
        LET rows == lessons_exercises[l]
            types == {r.exercise_type : r \in Range(ContentRows(rows))}
        IN  rows # <<>> =>
                recompute(l).lesson_type =
                    IF \E t \in types : types = {t}
                    THEN CHOOSE t \in types : TRUE
                    ELSE "mixed"

\* The decimal text of a JLPT level
LevelText(n) == CASE n = 2 -> "2" [] n = 3 -> "3" [] n = 5 -> "5"

ExpectedJlpt(levels) ==
    IF levels = {} THEN "unknown"
    ELSE LET lo == CHOOSE x \in levels : \A y \in levels : x <= y
             hi == CHOOSE x \in levels : \A y \in levels : x >= y
         IN  IF lo = hi THEN LevelText(lo) ELSE LevelText(lo) \o "-" \o LevelText(hi)

\* C10: for a lesson with at least one row recompute sets jlpt_level to
\* "unknown" when no row resolves to a level, to the text of the level when the
\* resolved rows share one, and else to "<min>-<max>" of the resolved levels,
\* whatever the order of the rows; an add that has just returned has stored it.
C10_JlptLevelOfResolvedRows ==
    \A l \in LessonIds :
        LET rows == lessons_exercises[l]
            expected == ExpectedJlpt(ResolvedLevels(rows))
        IN  rows # <<>> =>
                /\ recompute(l).jlpt_level = expected
                /\ JustAdded(l) => lesson[l].jlpt_level = expected

C10_Witness ==
    /\ JustAdded(1)
    /\ ResolvedLevels(lessons_exercises[1]) = {2, 3, 5}
    /\ LevelOf(lessons_exercises[1][1]) = 3
    /\ lesson[1].jlpt_level = "2-5"

\* C11: in every state that lesson creations, add-exercise and remove-exercise
\* requests lead to (over any exercise store), every lesson's exercise_count is
\* the number of its LessonsExercises rows, the rows that do not resolve
\* included.
C11_ExerciseCountIsRowCount ==
    \A l \in LessonIds : lesson[l].exercise_count = Len(lessons_exercises[l])

C11_Witness ==
    /\ last.op = "lesson_remove"
    /\ last.rows # 0
    /\ Len(lessons_exercises[1]) = 2
    /\ \E r \in Range(lessons_exercises[1]) : ~Resolves(r)
    /\ lesson[1].exercise_count = 2

C13_DuplicateAddChangesNothing ==
    [][(last'.op = "lesson_add" /\ ~last'.ok)
          => /\ lessons_exercises' = lessons_exercises
             /\ lesson' = lesson]_vars

\* The records of a table that are there, each with its id
LiveRows(table) == {<<i, table[i]>> : i \in {j \in 1 .. Len(table) : table[j] # Deleted}}

\* The entry of a pairs list is an object with a kanji and an answer
ValidPair(pair_data) ==
    pair_data # NotADict /\ pair_data.kanji # "" /\ pair_data.answer # ""

\* The stored pair is (kanji, answer) or (answer, kanji), whatever the case of
\* the letters
SamePair(stored, kanji, answer) ==
    \/ iexact(stored.kanji, kanji) /\ iexact(stored.answer, answer)
    \/ iexact(stored.kanji, answer) /\ iexact(stored.answer, kanji)

\* C14: a direct creation of a pair-match exercise with fewer than 2 pairs is
\* refused and writes no ExerciseMatch and no option; with 2 or more valid
\* pairs it succeeds, and the new ExerciseMatch has as many options as pairs
\* were submitted, so 2 or more: it is not a library pair.
C14_DirectCreationNeedsTwoPairs ==
    [][(last'.op = "exercise_create" /\ last'.exercise_type = "pair-match") =>
          LET pairs_data == last'.data
              match_id == Len(exercise_match) + 1
          IN  /\ Len(pairs_data) < 2 =>
                     /\ ~last'.ok
                     /\ UNCHANGED <<exercise_match, exercise_match_options>>
              /\ (/\ Len(pairs_data) >= 2
                  /\ \A i \in 1 .. Len(pairs_data) : ValidPair(pairs_data[i])) =>
                     /\ last'.ok
                     /\ Exists(exercise_match', match_id)
                     /\ pair_count(exercise_match_options', match_id) = Len(pairs_data)
                     /\ exercise_match'[match_id].pair_count >= 2
                     /\ match_id \notin library_exercises']_vars

C14_Witness ==
    /\ last.op = "exercise_create"
    /\ last.exercise_type = "pair-match"
    /\ last.ok
    /\ Len(last.data) = 2
    /\ last.exercise_id = 2
    /\ pair_count(exercise_match_options, 2) = 2
    /\ library_exercises = {1}

\* C15: the creation of a multiple-choice question whose options list is empty
\* or has no option marked correct is refused and writes neither question nor
\* option; so every question in the table has an option with is_correct true.
C15_QuestionHasCorrectOption ==
    [][(last'.op = "exercise_create" /\ last'.exercise_type = "multi-choice") =>
          LET options_data == last'.data
          IN  /\ (\A i \in 1 .. Len(options_data) : options_data[i].is_correct # "true") =>
                     /\ ~last'.ok
                     /\ LiveRows(exercise_multichoice') = LiveRows(exercise_multichoice)
                     /\ LiveRows(exercise_multichoice_options')
                            = LiveRows(exercise_multichoice_options)
              /\ \A q \in 1 .. Len(exercise_multichoice') :
                     Exists(exercise_multichoice', q) =>
                         \E o \in referring(exercise_multichoice_options', "exercise_mc", q) :
                             exercise_multichoice_options'[o].is_correct]_vars

\* C16: a creation of a multiple-choice question or of a pair-match exercise
\* that is refused leaves all four tables with the records they held before
\* the request.
C16_RefusedCreationLeavesNoRows ==
    [][(last'.op = "exercise_create" /\ ~last'.ok) =>
          /\ LiveRows(exercise_match') = LiveRows(exercise_match)
          /\ LiveRows(exercise_match_options') = LiveRows(exercise_match_options)
          /\ LiveRows(exercise_multichoice') = LiveRows(exercise_multichoice)
          /\ LiveRows(exercise_multichoice_options')
                 = LiveRows(exercise_multichoice_options)]_vars

\* C17: the creation of a library pair (k, a) is refused, and writes nothing,
\* when the library already holds (k, a) or (a, k), whatever the case of the
\* letters.
C17_LibraryPairDuplicateEitherDirection ==
    [][last'.op = "pair_create" =>
          LET new == last'.data[1]
          IN  (\E o \in 1 .. Len(exercise_match_options) :
                  /\ exercise_match_options[o] # Deleted
                  /\ exercise_match_options[o].exercise_match \in library_exercises
                  /\ SamePair(exercise_match_options[o], new.kanji, new.answer))
              => /\ ~last'.ok
                 /\ UNCHANGED <<exercise_match, exercise_match_options>>]_vars

\* C18: a direct creation of a pair-match exercise is refused when one of its
\* pairs is (k, a) and the options table already holds (k, a) or (a, k),
\* whatever the case of the letters.
C18_DirectCreationDuplicateEitherDirection ==
    [][(last'.op = "exercise_create" /\ last'.exercise_type = "pair-match") =>
          LET pairs_data == last'.data
          IN  (\E i \in 1 .. Len(pairs_data), o \in 1 .. Len(exercise_match_options) :
                  /\ ValidPair(pairs_data[i])
                  /\ exercise_match_options[o] # Deleted
                  /\ SamePair(exercise_match_options[o],
                              pairs_data[i].kanji, pairs_data[i].answer))
              => ~last'.ok]_vars

\* C19: a creation from pairs that succeeds leaves every option that was there
\* in its ExerciseMatch with its kanji and answer, leaves every library pair a
\* library pair, and gives the new ExerciseMatch one new option per selected
\* pair, with that pair's kanji and answer.
C19_FromPairsCopies ==
    [][(last'.op = "exercise_from_pairs" /\ last'.ok) =>
          LET pair_ids == last'.data
              match_id == Len(exercise_match) + 1
              n == Len(exercise_match_options)
              copies == (n + 1) .. Len(exercise_match_options')
              IsCopy(j, i) ==
                  /\ exercise_match_options'[j].exercise_match = match_id
                  /\ exercise_match_options'[j].kanji = exercise_match_options[i].kanji
                  /\ exercise_match_options'[j].answer = exercise_match_options[i].answer
          IN  /\ SubSeq(exercise_match_options', 1, n) = exercise_match_options
              /\ SubSeq(exercise_match', 1, Len(exercise_match)) = exercise_match
              /\ library_exercises \subseteq library_exercises'
              /\ Cardinality(copies) = Len(pair_ids)
              /\ \A j \in copies : \E i \in Range(pair_ids) : IsCopy(j, i)
              /\ \A i \in Range(pair_ids) : \E j \in copies : IsCopy(j, i)]_vars

C19_Witness ==
    /\ last.op = "exercise_from_pairs"
    /\ last.ok
    /\ last.exercise_id = 3
    /\ library_exercises = {1, 2}
    /\ last.data = <<2, 1>>
    /\ pair_count(exercise_match_options, 3) = 2

\* C20: no student has two GroupsStudents rows for one group, whichever way
\* the steps of join requests in progress at the same time interleave.
C20_OneMembershipPerStudentAndGroup ==
    \A u \in Users, group_id \in 1 .. Len(group) :
        Cardinality(memberships(u, group_id)) <= 1

\* C21: a membership row appears only by a join request and with
\* verification_status false; it turns true only in an approve request that
\* succeeds and is sent by the teacher of the row's group.
C21_ApprovedOnlyByOwningTeacher ==
    [][\A i \in 1 .. Len(groups_students') :
          LET row == groups_students'[i]
              was_approved ==
                  /\ i <= Len(groups_students)
                  /\ groups_students[i] # Deleted
                  /\ groups_students[i].verification_status
          IN  /\ i > Len(groups_students) =>
                     /\ ~row.verification_status
                     /\ last'.op = "group_join"
                     /\ last'.user = row.student
              /\ (row # Deleted /\ ~was_approved) =>
                     (row.verification_status =>
                         /\ last'.op = "group_approve"
                         /\ last'.ok
                         /\ last'.user \in Teachers
                         /\ group[row.group].teacher = last'.user
                         /\ last'.data = <<row.student, row.group>>)]_vars

\* An approved row of a group while another teacher than its owner and a
\* student have sent requests of their own
C21_Witness ==
    /\ last.op = "group_approve"
    /\ last.ok
    /\ last.user = "teacher"
    /\ \E i \in 1 .. Len(groups_students) :
           /\ groups_students[i] # Deleted
           /\ groups_students[i].verification_status
           /\ group[groups_students[i].group].teacher = "teacher"
           /\ groups_students[i].student = "student"

\* C26: a rejection by the group's teacher or a withdrawal by the student that
\* succeeds leaves no row of that student for that group, so the existence
\* test of the student's next join request finds nothing and a pending row is
\* inserted.
C26_RejectedOrWithdrawnStudentHasNoRow ==
    (last.op \in {"group_cancel", "group_withdraw"} /\ last.ok) =>
        memberships(last.data[1], last.data[2]) = {}

\* C23: a request that creates, updates or deletes an exercise of any of the
\* three stores and is sent by a caller who is not a teacher ends with the
\* forbidden outcome and leaves every exercise and option row as it was.
C23_StoreWritesByNonTeachersForbidden ==
    [][(/\ last'.op \in {"exercise_create", "exercise_update", "exercise_delete"}
        /\ last'.user \notin Teachers)
       => /\ last'.status = "forbidden"
          /\ UNCHANGED <<exercise_freetext, exercise_multichoice, exercise_match,
                         option_tables>>]_vars

\* The store of an exercise kind
StoreOf(exercise_type) ==
    CASE exercise_type = "freetext" -> exercise_freetext
      [] exercise_type = "multi-choice" -> exercise_multichoice
      [] exercise_type = "pair-match" -> exercise_match

\* C27: a get, update or delete by id of an exercise that has no row in the
\* addressed store, sent by a caller the role test lets through, ends with
\* the not-found outcome and leaves every exercise and option row as it was.
C27_MissingExerciseIsNotFound ==
    [][(/\ last'.op \in {"exercise_get", "exercise_update", "exercise_delete"}
        /\ last'.status # "forbidden"
        /\ ~Exists(StoreOf(last'.exercise_type), last'.exercise_id))
       => /\ last'.status = "not_found"
          /\ UNCHANGED <<exercise_freetext, exercise_multichoice, exercise_match,
                         option_tables>>]_vars

\* C22: an add-exercise, remove-exercise, update or delete request on a lesson
\* that exists, sent by a caller who is not a teacher or by a teacher other
\* than the lesson's, ends with the forbidden outcome and leaves the lesson,
\* its rows and its derived fields as they were.
C22_LessonWritesByOthersForbidden ==
    [][(/\ last'.op \in {"lesson_add", "lesson_remove", "lesson_update", "lesson_delete"}
        /\ Exists(lesson, last'.lesson)
        /\ \/ last'.user \notin Teachers
           \/ lesson[last'.lesson].teacher # last'.user)
       => /\ last'.status = "forbidden"
          /\ UNCHANGED lesson_tables]_vars

\* Another teacher has asked to delete a lesson that holds rows
C22_Witness ==
    /\ last.op = "lesson_delete"
    /\ last.status = "forbidden"
    /\ last.user = "other_teacher"
    /\ Exists(lesson, last.lesson)
    /\ lesson[last.lesson].teacher = "teacher"
    /\ lessons_exercises[last.lesson] # <<>>

\* C28: the lesson_type of every lesson is one of the three kinds, "mixed" or
\* "empty", whatever tags the requests carried.
C28_LessonTypeIsOfTheFive ==
    \A l \in 1 .. Len(lesson) :
        Exists(lesson, l) => lesson[l].lesson_type \in ExerciseTypes \cup {"mixed", "empty"}

\* C29: a container made by a library-pair request has one option, one made
\* by a direct creation or from pairs has at least two, and a container that
\* is there before and after a request has the same number of options.
C29_ClassFixedAtCreation ==
    [][\A m \in 1 .. Len(exercise_match') :
          Exists(exercise_match', m) =>
              LET n == pair_count(exercise_match_options', m)
              IN  IF m <= Len(exercise_match)
                  THEN n = pair_count(exercise_match_options, m)
                  ELSE IF last'.op = "pair_create" THEN n = 1 ELSE n >= 2]_vars

\* C30: an add-exercise request or a lesson creation that is not served in
\* full leaves no row of its list with the lesson, leaves no lesson created,
\* and leaves the derived fields as they were.
C30_ListAddIsAllOrNothing ==
    [][(last'.op \in {"lesson_add", "lesson_create"} /\ ~last'.ok)
       => UNCHANGED lesson_tables]_vars

\* The derived fields of lesson l differ from what recompute yields on its rows
Stale(l) == derived(lesson[l]) # derived(recompute(l))

\* C24: with no request in progress, the derived fields of a lesson differ
\* from what recompute yields on its rows after a successful request that
\* inserted rows only when that request ran together with another request on
\* the lesson; and such a state is reached.
C24_StaleOnlyAfterRequestsTogether ==
    (/\ add_request = <<>>
     /\ last.op \in {"lesson_add", "lesson_create"}
     /\ last.ok
     /\ last.rows >= 1
     /\ Stale(last.lesson))
        => last.data = <<TRUE>>

\* Two requests on lesson 1 have ended, each has inserted its row, and the
\* fields of the lesson are stale
C24_Witness ==
    /\ add_request = <<>>
    /\ last.op = "lesson_add"
    /\ last.ok
    /\ last.rows = 1
    /\ last.data = <<TRUE>>
    /\ Len(lessons_exercises[1]) = 2
    /\ Stale(1)

\* C25: no lesson has two rows with the same exercise_id and exercise_type,
\* however the statements of add-exercise requests and lesson creations in
\* progress at the same time interleave.
C25_NoLessonRefersTwice ==
    \A l \in 1 .. Len(lessons_exercises) :
        \A i, j \in 1 .. Len(lessons_exercises[l]) :
            i # j => lessons_exercises[l][i] # lessons_exercises[l][j]

\* Two requests that ran together have left a freetext row and a
\* multi-choice row with the same exercise_id in one lesson
C25_Witness ==
    /\ add_request = <<>>
    /\ last.data = <<TRUE>>
    /\ Ref("freetext", 1) \in Range(lessons_exercises[1])
    /\ Ref("multi-choice", 1) \in Range(lessons_exercises[1])

====
